---------------------------- MODULE Spec2Model ----------------------------
(* BetterMann API (src/main.py, src/schemas.py): the request handlers and  *)
(* the record validators, over a document store of append-only             *)
(* collections.                                                            *)
(*                                                                         *)
(* Conventions.  A text is a tuple of one-character strings, so that       *)
(* suffix, substring and regular-expression tests are computed and not     *)
(* assumed.  An Optional value is a tuple of length 0 (None) or 1.  E-mail *)
(* addresses, slugs and tags are only ever compared for equality and are   *)
(* atoms.  A rating is held in tenths (4.8 is 48).                         *)
EXTENDS Integers, Sequences, FiniteSets, TLC

VARIABLES db, store, last, registered, pc

vars == <<db, store, last, registered, pc>>

-----------------------------------------------------------------------------
(* Bounds of the exploration.                                              *)

MaxDocs == 2

LoadDocs == 101

MaxElsewhere == 2

Handlers == {1, 2}

-----------------------------------------------------------------------------
(* Values.                                                                 *)

None == <<>>

Some(x) == <<x>>

truthy(t) == Len(t) > 0

Collections == {"user", "therapist", "review", "blogpost", "faq", "contactmessage", "session"}

ObjectId(n) == [oid |-> n]

str(o) == [hex |-> o.oid]

Lower(c) == CASE c = "A" -> "a" [] c = "B" -> "b" [] c = "D" -> "d" [] OTHER -> c

SeqToSet(s) == {s[i] : i \in 1..Len(s)}

Min(a, b) == IF a <= b THEN a ELSE b

pop_id(doc) == [k \in (DOMAIN doc \ {"_id"}) \cup {"id"} |-> IF k = "id" THEN str(doc._id) ELSE doc[k]]

Response(status, body) == [status |-> status, body |-> body]

HTTPException(status, detail) == [status |-> status, body |-> [detail |-> detail]]

-----------------------------------------------------------------------------
(* The store gateway (module database).                                    *)

(* db is the connection handle or None; the handlers test it as "if db"    *)
(* and as "db is None", and a handle counts as true.                       *)
connected(d) == d = "connected"

(* A filter is a sequence of conditions, all of which a document must      *)
(* meet.  A field holds one value (ScalarFields) or several: an array, or  *)
(* an Optional, which offers no value when None.                           *)
ScalarFields == {"name", "email", "slug"}

values(doc, field) == IF field \in ScalarFields THEN {doc[field]} ELSE SeqToSet(doc[field])

(* MongoDB $regex with option i: the pattern is searched anywhere in the   *)
(* value, letters compare without case, and "." matches any character.     *)
regex(pat, s) ==
    \E i \in 0..(Len(s) - Len(pat)) :
       \A j \in 1..Len(pat) : pat[j] = "." \/ Lower(pat[j]) = Lower(s[i + j])

condition(c, doc) ==
    CASE c.op = "$eq" -> c.value \in values(doc, c.field)
      [] c.op = "$regex" -> \E v \in values(doc, c.field) : regex(c.value, v)
      [] c.op = "$in" -> values(doc, c.field) \cap SeqToSet(c.value) # {}

matches(filter, doc) ==
    \A k \in 1..Len(filter) :
       IF filter[k].op = "$or"
       THEN \E m \in 1..Len(filter[k].value) : condition(filter[k].value[m], doc)
       ELSE condition(filter[k], doc)

Cond(field, op, value) == [field |-> field, op |-> op, value |-> value]

find(coll, filter) == LET hit(doc) == matches(filter, doc) IN SelectSeq(coll, hit)

limit(docs, n) == SubSeq(docs, 1, Min(Len(docs), n))

find_one(coll, filter) == limit(find(coll, filter), 1)

create_document(d, st, name, data) ==
    IF ~connected(d)
    THEN [ok |-> FALSE, id |-> None, store |-> st]
    ELSE LET oid == ObjectId(Len(st[name]) + 1)
             doc == data @@ [_id |-> oid]
         IN [ok |-> TRUE, id |-> Some(str(oid)),
             store |-> [st EXCEPT ![name] = Append(@, doc)]]

get_documents(d, st, name, filter_dict, n) ==
    IF ~connected(d)
    THEN [ok |-> FALSE, items |-> <<>>]
    ELSE [ok |-> TRUE, items |-> limit(find(st[name], filter_dict), n)]

StoreUnavailable == HTTPException(500, "Database not available")

created(res, body) == IF res.ok THEN Response(200, body) ELSE StoreUnavailable

-----------------------------------------------------------------------------
(* Authentication (main.py lines 25-53, schemas.py User).                  *)

Emails == {"x@m.in", "y@m.in"}

SignupPasswords == {<<"a">>, <<"b", "a">>}

LoginPasswords == SignupPasswords \cup {<<>>, <<"b">>, <<":", "a">>, <<"h", "a", "s", "h", ":", "a">>}

SignupRequest(name, email, password) ==
    [name |-> name, email |-> email, password |-> password, language |-> Some(<<"e", "n">>)]

SignupRequests ==
    {SignupRequest(<<"a">>, "x@m.in", <<"a">>), SignupRequest(<<"b">>, "x@m.in", <<"b", "a">>),
     SignupRequest(<<"b">>, "y@m.in", <<"a">>), SignupRequest(<<"a">>, "y@m.in", <<"b", "a">>)}

LoginRequests == [email : Emails, password : LoginPasswords]

User(name, email, password_hash, language) ==
    [name |-> name, email |-> email, password_hash |-> password_hash,
     phone |-> None, language |-> language, city |-> None,
     is_active |-> TRUE, role |-> "user"]

(* Variant: the password is left out of the stored field.                  *)
fhash_without_password(password) == <<"h", "a", "s", "h", ":">>

fhash(password) == <<"h", "a", "s", "h", ":">> \o password

(* Variant: the stored field is compared as a whole.                       *)
equals_hash(s, suffix) == s = <<"h", "a", "s", "h", ":">> \o suffix

endswith(s, suffix) ==
    /\ Len(suffix) <= Len(s)
    /\ SubSeq(s, Len(s) - Len(suffix) + 1, Len(s)) = suffix

(* Variant: the lookup also matches on the name.                           *)
signup_existing_by_name(d, st, req) ==
    IF connected(d)
    THEN find_one(st["user"], <<Cond("email", "$eq", req.email), Cond("name", "$eq", req.name)>>)
    ELSE None

signup_existing(d, st, req) ==
    IF connected(d)
    THEN find_one(st["user"], <<Cond("email", "$eq", req.email)>>)
    ELSE None

(* Variant: the insert is skipped when the e-mail is present by then.      *)
signup_create_if_absent(d, st, req) ==
    LET user == User(req.name, req.email, fhash(req.password), req.language)
        res  == create_document(d, st, "user", user)
    IN IF truthy(find_one(st["user"], <<Cond("email", "$eq", req.email)>>))
       THEN [store |-> st, resp |-> HTTPException(400, "Email already registered")]
       ELSE [store |-> res.store,
             resp  |-> IF res.ok
                       THEN Response(200, [id |-> res.id[1], name |-> user.name, email |-> user.email])
                       ELSE StoreUnavailable]

signup_create(d, st, req) ==
    LET user == User(req.name, req.email, fhash(req.password), req.language)
        res  == create_document(d, st, "user", user)
    IN [store |-> res.store,
        resp  |-> IF res.ok
                  THEN Response(200, [id |-> res.id[1], name |-> user.name, email |-> user.email])
                  ELSE StoreUnavailable]

signup(d, st, req) ==
    IF truthy(signup_existing(d, st, req))
    THEN [store |-> st, resp |-> HTTPException(400, "Email already registered")]
    ELSE signup_create(d, st, req)

login(d, st, req) ==
    LET u == IF connected(d) THEN find_one(st["user"], <<Cond("email", "$eq", req.email)>>) ELSE None
    IN IF ~truthy(u)
       THEN HTTPException(404, "User not found")
       ELSE IF ~endswith(u[1].password_hash, req.password)
            THEN HTTPException(401, "Invalid credentials")
            ELSE Response(200, [id |-> str(u[1]._id), name |-> u[1].name, email |-> u[1].email])

register(reg, req, resp) ==
    IF resp.status = 200
    THEN reg \cup {[id |-> resp.body.id, name |-> req.name, email |-> req.email, password |-> req.password]}
    ELSE reg

TotalDocs(st) ==
    Len(st["user"]) + Len(st["therapist"]) + Len(st["review"]) + Len(st["blogpost"])
    + Len(st["faq"]) + Len(st["contactmessage"]) + Len(st["session"])

Idle == [h \in Handlers |-> [at |-> "idle"]]

Init ==
    /\ db \in {"connected", "none"}
    /\ store = [c \in Collections |-> <<>>]
    /\ last = [op |-> "start"]
    /\ registered = {}
    /\ pc = Idle

Signup ==
    \E req \in SignupRequests :
       LET r == signup(db, store, req) IN
         /\ store' = r.store
         /\ TotalDocs(store') <= MaxDocs
         /\ last' = [op |-> "signup", req |-> req, resp |-> r.resp]
         /\ registered' = register(registered, req, r.resp)
         /\ UNCHANGED <<db, pc>>

Login ==
    \E req \in LoginRequests :
         /\ last' = [op |-> "login", req |-> req, resp |-> login(db, store, req)]
         /\ UNCHANGED <<db, store, registered, pc>>

-----------------------------------------------------------------------------
(* Therapist directory and matching (main.py lines 55-105, schemas.py      *)
(* Therapist and MatchRequest).                                            *)

TherapistLimit == 50

MatchLimit == 10

Tenths(n) == 10 * n

TherapistData(name, city, languages, specialties, experience_years, price, rating) ==
    [name |-> name, email |-> "t@m.in", bio |-> None, education |-> None,
     specialties |-> specialties, experience_years |-> experience_years,
     languages |-> languages, gender |-> None, city |-> city,
     price_per_week_inr |-> price, rating |-> rating, photo_url |-> None,
     slots |-> <<>>]

Bangalore == TherapistData(<<"a">>, Some(<<"B", "a">>), << <<"A", "b">> >>, << <<"a", "b">> >>, 3, 799, 48)

Delhi == TherapistData(<<"b">>, Some(<<"D">>), << <<"b">>, <<"a">> >>, << <<"a">>, <<"b">> >>, 0, 0, Tenths(5))

Remote == TherapistData(<<"B", "a">>, None, << <<"d">> >>, <<>>, 1, 5, 0)

ValidTherapists == {Bangalore, Delhi, Remote}

InvalidTherapists ==
    {[Bangalore EXCEPT !.rating = Tenths(5) + 1], [Bangalore EXCEPT !.rating = -1],
     [Delhi EXCEPT !.experience_years = -1], [Delhi EXCEPT !.price_per_week_inr = -1]}

TherapistInputs == ValidTherapists \cup InvalidTherapists

(* Variant: the upper bound of rating is not checked.                      *)
Therapist_without_le(data) ==
    /\ data.experience_years >= 0
    /\ data.price_per_week_inr >= 0
    /\ data.rating >= 0

Therapist(data) ==
    /\ data.experience_years >= 0
    /\ data.price_per_week_inr >= 0
    /\ data.rating >= 0
    /\ data.rating <= Tenths(5)

ValidationError == [status |-> 422, body |-> [detail |-> "validation error"]]

given(p) == truthy(p) /\ truthy(p[1])

therapists_query(language, city, q) ==
    (IF given(language) THEN <<Cond("languages", "$regex", language[1])>> ELSE <<>>)
    \o (IF given(city) THEN <<Cond("city", "$regex", city[1])>> ELSE <<>>)
    \o (IF given(q)
        THEN <<Cond("$or", "$or", <<Cond("name", "$regex", q[1]), Cond("specialties", "$regex", q[1])>>)>>
        ELSE <<>>)

list_items(items) == [i \in 1..Len(items) |-> pop_id(items[i])]

list_therapists(d, st, language, city, q) ==
    IF ~connected(d)
    THEN StoreUnavailable
    ELSE LET query == therapists_query(language, city, q)
             res == get_documents(d, st, "therapist", query, TherapistLimit)
         IN Response(200, [items |-> list_items(res.items)])

add_therapist(d, st, data) ==
    IF ~Therapist(data)
    THEN [store |-> st, resp |-> ValidationError]
    ELSE LET res == create_document(d, st, "therapist", data)
         IN [store |-> res.store, resp |-> created(res, [id |-> res.id])]

match_query(req) ==
    (IF given(req.language) THEN <<Cond("languages", "$regex", req.language[1])>> ELSE <<>>)
    \o (IF given(req.city) THEN <<Cond("city", "$regex", req.city[1])>> ELSE <<>>)
    \o (IF truthy(req.concerns) THEN <<Cond("specialties", "$in", req.concerns)>> ELSE <<>>)

match_result(t) ==
    [id |-> str(t._id), name |-> t.name, languages |-> t.languages,
     specialties |-> t.specialties, city |-> t.city, rating |-> t.rating,
     price_per_week_inr |-> t.price_per_week_inr, photo_url |-> t.photo_url]

(* Variant: the cursor is not limited.                                     *)
match_unlimited(d, st, req) ==
    IF ~connected(d)
    THEN StoreUnavailable
    ELSE LET therapists == find(st["therapist"], match_query(req))
         IN Response(200, [matches |-> [i \in 1..Len(therapists) |-> match_result(therapists[i])]])

match(d, st, req) ==
    IF ~connected(d)
    THEN StoreUnavailable
    ELSE LET therapists == limit(find(st["therapist"], match_query(req)), MatchLimit)
         IN Response(200, [matches |-> [i \in 1..Len(therapists) |-> match_result(therapists[i])]])

TherapistParams(language, city, q) == [language |-> language, city |-> city, q |-> q]

TherapistQueries ==
    {TherapistParams(None, None, None), TherapistParams(Some(<<>>), Some(<<>>), Some(<<>>)),
     TherapistParams(Some(<<"a">>), None, None), TherapistParams(Some(<<"B">>), None, None),
     TherapistParams(None, Some(<<"b", "a">>), None), TherapistParams(None, Some(<<"d">>), None),
     TherapistParams(None, None, Some(<<"a">>)), TherapistParams(None, None, Some(<<"A", "B">>)),
     TherapistParams(Some(<<"a">>), Some(<<"b", "a">>), Some(<<"b">>)),
     TherapistParams(Some(<<"d">>), Some(<<"d">>), None),
     TherapistParams(None, Some(<<".">>), None), TherapistParams(None, None, Some(<<".", ".">>))}

MatchRequest(concerns, language, city) ==
    [age |-> None, concerns |-> concerns, language |-> language,
     gender_preference |-> None, city |-> city]

MatchRequests ==
    {MatchRequest(<<>>, None, None), MatchRequest(<<>>, Some(<<>>), Some(<<>>)),
     MatchRequest(<< <<"a">> >>, None, None), MatchRequest(<< <<"a", "b">>, <<"c">> >>, None, None),
     MatchRequest(<< <<"A">> >>, None, None), MatchRequest(<<>>, Some(<<"B">>), None),
     MatchRequest(<<>>, None, Some(<<"b", "a">>)), MatchRequest(<< <<"a">> >>, Some(<<"a">>), Some(<<"d">>)),
     MatchRequest(<< <<"b">> >>, Some(<<"a">>), Some(<<"b", "a">>)),
     MatchRequest(<<>>, Some(<<".">>), None)}

AddTherapistOf(inputs) ==
    \E data \in inputs :
       LET r == add_therapist(db, store, data) IN
         /\ store' = r.store
         /\ last' = [op |-> "add_therapist", req |-> data, resp |-> r.resp]
         /\ UNCHANGED <<db, registered, pc>>

AddTherapist == AddTherapistOf(TherapistInputs) /\ TotalDocs(store') <= MaxDocs

ListTherapistsOf(reqs) ==
    \E req \in reqs :
         /\ last' = [op |-> "list_therapists", req |-> req,
                     resp |-> list_therapists(db, store, req.language, req.city, req.q)]
         /\ UNCHANGED <<db, store, registered, pc>>

ListTherapists == ListTherapistsOf(TherapistQueries)

MatchOf(reqs) ==
    \E req \in reqs :
         /\ last' = [op |-> "match", req |-> req, resp |-> match(db, store, req)]
         /\ UNCHANGED <<db, store, registered, pc>>

Match == MatchOf(MatchRequests)

-----------------------------------------------------------------------------
(* Reviews, blog, FAQ, contact and sessions (main.py lines 117-175,        *)
(* schemas.py Review, BlogPost, FAQ, ContactMessage, Session).             *)

ReviewLimit == 50

BlogLimit == 50

FaqLimit == 100

ReviewData(rating) ==
    [user_name |-> "asha", rating |-> rating, comment |-> "helpful", city |-> None, created_at |-> None]

ReviewInputs == {ReviewData(5), ReviewData(0), ReviewData(6)}

Review(data) == data.rating >= 1 /\ data.rating <= 5

BlogPostData(title, slug, tags) ==
    [title |-> title, slug |-> slug, excerpt |-> "excerpt", content |-> "content",
     tags |-> tags, cover_image |-> None, published_at |-> None]

BlogInputs ==
    {BlogPostData("Sleep", "sleep", <<"rest">>), BlogPostData("Sleep again", "sleep", <<"rest", "work">>),
     BlogPostData("Stress", "stress", <<>>)}

Slugs == {"sleep", "SLEEP", "stress"}

TagParams == {None, Some(""), Some("work")}

FaqData(question) == [question |-> question, answer |-> "yes", category |-> None]

FaqInputs == {FaqData("is it private")}

ContactInputs == {[name |-> "asha", email |-> "x@m.in", subject |-> "hello", message |-> "call me"]}

SessionInputs ==
    {[user_id |-> "u1", therapist_id |-> "no such therapist", mode |-> "chat",
      scheduled_for |-> None, status |-> "scheduled"]}

(* Variant: the review list fails without a connection.                    *)
reviews_unavailable(d, st) ==
    IF ~connected(d)
    THEN StoreUnavailable
    ELSE Response(200, [items |-> list_items(get_documents(d, st, "review", <<>>, ReviewLimit).items)])

reviews(d, st) ==
    LET res == IF connected(d) THEN get_documents(d, st, "review", <<>>, ReviewLimit).items ELSE <<>>
    IN Response(200, [items |-> list_items(res)])

add_review(d, st, data) ==
    IF ~Review(data)
    THEN [store |-> st, resp |-> ValidationError]
    ELSE LET res == create_document(d, st, "review", data)
         IN [store |-> res.store, resp |-> created(res, [id |-> res.id])]

blog_query(tag) == IF truthy(tag) /\ tag[1] # "" THEN <<Cond("tags", "$eq", tag[1])>> ELSE <<>>

blog_list(d, st, tag) ==
    LET query == blog_query(tag)
        res == IF connected(d) THEN get_documents(d, st, "blogpost", query, BlogLimit).items ELSE <<>>
    IN Response(200, [items |-> list_items(res)])

add_blog(d, st, post) ==
    LET res == create_document(d, st, "blogpost", post)
    IN [store |-> res.store, resp |-> created(res, [id |-> res.id])]

(* Variant: the internal key is copied to id and left in the record.       *)
blog_detail_keeping_key(d, st, slug) ==
    LET post == IF connected(d) THEN find_one(st["blogpost"], <<Cond("slug", "$eq", slug)>>) ELSE None
    IN IF ~truthy(post)
       THEN HTTPException(404, "Not found")
       ELSE Response(200, post[1] @@ [id |-> str(post[1]._id)])

blog_detail(d, st, slug) ==
    LET post == IF connected(d) THEN find_one(st["blogpost"], <<Cond("slug", "$eq", slug)>>) ELSE None
    IN IF ~truthy(post)
       THEN HTTPException(404, "Not found")
       ELSE Response(200, pop_id(post[1]))

faq_list(d, st) ==
    LET res == IF connected(d) THEN get_documents(d, st, "faq", <<>>, FaqLimit).items ELSE <<>>
    IN Response(200, [items |-> list_items(res)])

add_faq(d, st, item) ==
    LET res == create_document(d, st, "faq", item)
    IN [store |-> res.store, resp |-> created(res, [id |-> res.id])]

contact(d, st, msg) ==
    LET res == create_document(d, st, "contactmessage", msg)
    IN [store |-> res.store, resp |-> created(res, [id |-> res.id, status |-> "received"])]

create_session(d, st, s) ==
    LET res == create_document(d, st, "session", s)
    IN [store |-> res.store, resp |-> created(res, [id |-> res.id])]

Write(op, req, r) ==
    /\ store' = r.store
    /\ last' = [op |-> op, req |-> req, resp |-> r.resp]
    /\ UNCHANGED <<db, registered, pc>>

Read(op, req, resp) ==
    /\ last' = [op |-> op, req |-> req, resp |-> resp]
    /\ UNCHANGED <<db, store, registered, pc>>

AddReviewOf(inputs) == \E data \in inputs : Write("add_review", data, add_review(db, store, data))

AddReview == AddReviewOf(ReviewInputs) /\ TotalDocs(store') <= MaxDocs

Reviews == Read("reviews", None, reviews(db, store))

AddBlogOf(inputs) == \E post \in inputs : Write("add_blog", post, add_blog(db, store, post))

AddBlog == AddBlogOf(BlogInputs) /\ TotalDocs(store') <= MaxDocs

BlogList == \E tag \in TagParams : Read("blog_list", tag, blog_list(db, store, tag))

BlogDetail == \E slug \in Slugs : Read("blog_detail", slug, blog_detail(db, store, slug))

AddFaqOf(inputs) == \E item \in inputs : Write("add_faq", item, add_faq(db, store, item))

AddFaq == AddFaqOf(FaqInputs) /\ TotalDocs(store') <= MaxDocs

FaqList == Read("faq_list", None, faq_list(db, store))

Contact == (\E msg \in ContactInputs : Write("contact", msg, contact(db, store, msg))) /\ TotalDocs(store') <= MaxDocs

CreateSession == (\E s \in SessionInputs : Write("create_session", s, create_session(db, store, s))) /\ TotalDocs(store') <= MaxDocs

Next ==
    \/ Signup
    \/ Login
    \/ ListTherapists
    \/ AddTherapist
    \/ Match
    \/ Reviews
    \/ AddReview
    \/ BlogList
    \/ AddBlog
    \/ BlogDetail
    \/ FaqList
    \/ AddFaq
    \/ Contact
    \/ CreateSession

Spec == Init /\ [][Next]_vars

-----------------------------------------------------------------------------
(* Concurrent signups: two handlers run main.py line 34 (the existence     *)
(* check) and lines 37-39 (the insert) as separate steps.                  *)

Pending == Cardinality({h \in Handlers : pc[h].at = "insert"})

SignupCheck(h) ==
    /\ pc[h].at = "idle"
    /\ TotalDocs(store) + Pending < MaxDocs
    /\ \E req \in SignupRequests :
          IF truthy(signup_existing(db, store, req))
          THEN /\ last' = [op |-> "signup", req |-> req, resp |-> HTTPException(400, "Email already registered")]
               /\ UNCHANGED <<db, store, registered, pc>>
          ELSE /\ pc' = [pc EXCEPT ![h] = [at |-> "insert", req |-> req]]
               /\ UNCHANGED <<db, store, registered, last>>

SignupInsert(h) ==
    /\ pc[h].at = "insert"
    /\ LET r == signup_create(db, store, pc[h].req) IN
         /\ store' = r.store
         /\ last' = [op |-> "signup", req |-> pc[h].req, resp |-> r.resp]
         /\ registered' = register(registered, pc[h].req, r.resp)
    /\ pc' = [pc EXCEPT ![h] = [at |-> "idle"]]
    /\ UNCHANGED db

ConcNext ==
    \/ \E h \in Handlers : SignupCheck(h)
    \/ \E h \in Handlers : SignupInsert(h)
    \/ Login

SpecConc == Init /\ [][ConcNext]_vars

-----------------------------------------------------------------------------
(* Large collections: one collection at a time is filled up to LoadDocs    *)
(* records; at most MaxElsewhere of the therapists are in Delhi, and they  *)
(* are stored after those in Bangalore.                                    *)

NonEmpty(st) == {c \in Collections : Len(st[c]) > 0}

CityOrder(ts) ==
    /\ \A i \in 1..(Len(ts) - 1) : ~(ts[i].city = Delhi.city /\ ts[i + 1].city = Bangalore.city)
    /\ Cardinality({i \in 1..Len(ts) : ts[i].city = Delhi.city}) <= MaxElsewhere

LoadBound(st) ==
    /\ TotalDocs(st) <= LoadDocs
    /\ Cardinality(NonEmpty(st)) <= 1
    /\ CityOrder(st["therapist"])

LoadTherapist == AddTherapistOf({Bangalore, Delhi}) /\ LoadBound(store')

LoadReview == AddReviewOf({ReviewData(5)}) /\ LoadBound(store')

LoadBlog == AddBlogOf({BlogPostData("Sleep again", "sleep", <<"rest", "work">>)}) /\ LoadBound(store')

LoadFaq == AddFaqOf(FaqInputs) /\ LoadBound(store')

LoadListTherapists ==
    ListTherapistsOf({TherapistParams(None, None, None), TherapistParams(None, Some(<<"b", "a">>), None),
                      TherapistParams(Some(<<"a">>), Some(<<"d">>), Some(<<"B">>))})

LoadMatch ==
    MatchOf({MatchRequest(<<>>, None, None), MatchRequest(<<>>, None, Some(<<"b", "a">>)),
             MatchRequest(<< <<"b">> >>, Some(<<"a">>), None)})

LoadNext ==
    \/ LoadTherapist
    \/ LoadReview
    \/ LoadBlog
    \/ LoadFaq
    \/ LoadListTherapists
    \/ LoadMatch
    \/ Reviews
    \/ BlogList
    \/ FaqList

SpecLimits == Init /\ [][LoadNext]_vars

-----------------------------------------------------------------------------
(* Properties.  The helpers below restate what the specification says, in  *)
(* its own terms, for the formulas to compare the handlers against.        *)

users == store["user"]

LowerText(s) == [i \in 1..Len(s) |-> Lower(s[i])]

IsSuffixOf(p, h) == \E k \in 0..Len(h) : [i \in 1..(Len(h) - k) |-> h[k + i]] = p

ContainsText(sub, s) ==
    \E i \in 1..(Len(s) + 1) :
       /\ i + Len(sub) - 1 <= Len(s)
       /\ LowerText(SubSeq(s, i, i + Len(sub) - 1)) = LowerText(sub)

Supplied(p) == p # None /\ p # Some(<<>>)

LanguageOk(p, t) == Supplied(p) => \E l \in SeqToSet(t.languages) : ContainsText(p[1], l)

CityOk(p, t) == Supplied(p) => (t.city # None /\ ContainsText(p[1], t.city[1]))

FreeTextOk(p, t) ==
    Supplied(p) => (ContainsText(p[1], t.name) \/ \E sp \in SeqToSet(t.specialties) : ContainsText(p[1], sp))

ConcernsOk(cs, t) == cs # <<>> => SeqToSet(t.specialties) \cap SeqToSet(cs) # {}

DirectoryOk(req, t) == LanguageOk(req.language, t) /\ CityOk(req.city, t) /\ FreeTextOk(req.q, t)

MatchOk(req, t) == LanguageOk(req.language, t) /\ CityOk(req.city, t) /\ ConcernsOk(req.concerns, t)

Is(op, status) == last.op = op /\ last.resp.status = status

(* C1: once a signup with an e-mail has succeeded, a later signup with     *)
(* that e-mail is answered 400 (DuplicateEmail) and the store is left as   *)
(* it was, whatever the other fields of the request.                       *)
C1_DuplicateRefused ==
    [][(last'.op = "signup" /\ \E r \in registered : r.email = last'.req.email)
         => (last'.resp.status = 400 /\ store' = store)]_vars

C1_Witness ==
    /\ Is("signup", 400)
    /\ \E r \in registered :
          r.email = last.req.email /\ r.name # last.req.name /\ r.password # last.req.password

(* C2: with the check and the insert as separate steps, a handler enters   *)
(* the insert step only when no user has its e-mail, and the insert step   *)
(* then adds its record and succeeds whatever was inserted meanwhile; two  *)
(* successful signups can so leave two user records with one e-mail.       *)
C2_CheckThenInsert ==
    [][\A h \in Handlers :
         /\ (pc[h].at = "idle" /\ pc'[h].at = "insert")
               => \A i \in 1..Len(users) : users[i].email # pc'[h].req.email
         /\ (pc[h].at = "insert" /\ pc'[h].at = "idle" /\ db = "connected")
               => /\ Len(store'["user"]) = Len(users) + 1
                  /\ store'["user"][Len(users) + 1].email = pc[h].req.email
                  /\ last'.resp.status = 200]_vars

C2_Witness ==
    \E i, j \in 1..Len(users) :
       /\ i < j
       /\ users[i].email = users[j].email
       /\ \E r1, r2 \in registered : r1.id = str(users[i]._id) /\ r2.id = str(users[j]._id)

(* C3: login is decided by the first stored user with the e-mail: 404 when *)
(* there is none, 401 when the stored password field does not end with the *)
(* password supplied, else 200 with that user's id, name and e-mail; and   *)
(* login leaves the store as it was.                                       *)
C3_LoginOutcome ==
    [][last'.op = "login" =>
         /\ store' = store
         /\ LET req == last'.req
                hits == {i \in 1..Len(users) : users[i].email = req.email}
            IN IF hits = {}
               THEN last'.resp.status = 404
               ELSE LET u == users[CHOOSE i \in hits : \A k \in hits : i <= k]
                    IN IF IsSuffixOf(req.password, u.password_hash)
                       THEN /\ last'.resp.status = 200
                            /\ last'.resp.body = [id |-> str(u._id), name |-> u.name, email |-> u.email]
                       ELSE last'.resp.status = 401]_vars

C3_Witness ==
    /\ Is("login", 200)
    /\ \E r \in registered : r.id = last.resp.body.id /\ r.password # last.req.password

(* C4 as stated: without a store connection every data-dependent endpoint  *)
(* fails with StoreUnavailable (500).                                      *)
DataOps ==
    {"signup", "login", "list_therapists", "add_therapist", "match", "reviews", "add_review",
     "blog_list", "add_blog", "blog_detail", "faq_list", "add_faq", "contact", "create_session"}

ValidRequest == last.resp.status # 422

C5_MatchConjunctive ==
    Is("match", 200) =>
       LET ms == last.resp.body.matches
           ts == store["therapist"]
       IN /\ \A k \in 1..Len(ms) :
                \E i \in 1..Len(ts) : str(ts[i]._id) = ms[k].id /\ MatchOk(last.req, ts[i])
          /\ (~Supplied(last.req.language) /\ ~Supplied(last.req.city) /\ last.req.concerns = <<>>)
                => Len(ms) = Min(Len(ts), 10)

(* C6: the directory returns only therapists that satisfy every supplied   *)
(* parameter as a substring without regard to case (language in some       *)
(* language, city in the city, q in the name or in some specialty), and    *)
(* every therapist qualifies when nothing is supplied.                     *)
C6_DirectorySubstring ==
    Is("list_therapists", 200) =>
       LET items == last.resp.body.items
           ts == store["therapist"]
       IN /\ \A k \in 1..Len(items) :
                \E i \in 1..Len(ts) : str(ts[i]._id) = items[k].id /\ DirectoryOk(last.req, ts[i])
          /\ (~Supplied(last.req.language) /\ ~Supplied(last.req.city) /\ ~Supplied(last.req.q))
                => Len(items) = Min(Len(ts), 50)

(* C7: every list returns exactly min(matching records, cap) items, the    *)
(* cap being 50 for the directory, 10 for match, 50 for reviews, 50 for    *)
(* blog posts and 100 for FAQs.                                            *)
C7_LimitsExact ==
    /\ Is("list_therapists", 200) =>
          LET ts == store["therapist"]
          IN Len(last.resp.body.items) = Min(Cardinality({i \in 1..Len(ts) : DirectoryOk(last.req, ts[i])}), 50)
    /\ Is("match", 200) =>
          LET ts == store["therapist"]
          IN Len(last.resp.body.matches) = Min(Cardinality({i \in 1..Len(ts) : MatchOk(last.req, ts[i])}), 10)
    /\ Is("reviews", 200) => Len(last.resp.body.items) = Min(Len(store["review"]), 50)
    /\ Is("blog_list", 200) =>
          LET ps == store["blogpost"]
              tagged == {i \in 1..Len(ps) : (last.req # None /\ last.req # Some("")) => last.req[1] \in SeqToSet(ps[i].tags)}
          IN Len(last.resp.body.items) = Min(Cardinality(tagged), 50)
    /\ Is("faq_list", 200) => Len(last.resp.body.items) = Min(Len(store["faq"]), 100)

C7_Witness ==
    /\ Is("match", 200)
    /\ Len(last.resp.body.matches) = 10
    /\ Cardinality({i \in 1..Len(store["therapist"]) : MatchOk(last.req, store["therapist"][i])}) > 10
    /\ \E i \in 1..Len(store["therapist"]) : ~MatchOk(last.req, store["therapist"][i])

(* C8: blog detail answers 404 for a slug no stored post has; for a slug   *)
(* some post has it answers with the whole record of a post with that      *)
(* slug, id being the string form of its identifier and the internal key   *)
(* absent; the blogpost collection is left as it was.                      *)
C8_BlogDetail ==
    [][last'.op = "blog_detail" =>
         /\ store' = store
         /\ LET posts == store["blogpost"]
                hits == {i \in 1..Len(posts) : posts[i].slug = last'.req}
                body == last'.resp.body
            IN IF hits = {}
               THEN last'.resp.status = 404
               ELSE /\ last'.resp.status = 200
                    /\ "_id" \notin DOMAIN body
                    /\ \E i \in hits :
                          /\ body.id = str(posts[i]._id)
                          /\ \A f \in DOMAIN posts[i] \ {"_id"} : f \in DOMAIN body /\ body[f] = posts[i][f]]_vars

C8_Witness ==
    /\ Is("blog_detail", 200)
    /\ Cardinality({i \in 1..Len(store["blogpost"]) : store["blogpost"][i].slug = last.req}) = 2

(* C9: every stored therapist has a rating in [0,5] (0..50 tenths), and    *)
(* experience and price not below 0; a create request with a rating        *)
(* outside [0,5] is answered with a ValidationError and writes nothing.    *)
C9_RatingBounds ==
    [][/\ \A i \in 1..Len(store'["therapist"]) :
             LET t == store'["therapist"][i]
             IN t.rating >= 0 /\ t.rating <= 50 /\ t.experience_years >= 0 /\ t.price_per_week_inr >= 0
       /\ (last'.op = "add_therapist" /\ (last'.req.rating < 0 \/ last'.req.rating > 50))
             => (last'.resp.status = 422 /\ store' = store)]_vars

C9_Witness ==
    /\ Is("add_therapist", 422)
    /\ last.req.rating > 50
    /\ Len(store["therapist"]) > 0

(* C10: after signup(name, e, p) has succeeded with id i, every later      *)
(* login(e, p) succeeds and returns i with the name and e-mail given at    *)
(* signup, whatever was done in between.                                   *)
C10_SignupLoginRoundTrip ==
    last.op = "login" =>
       \A r \in registered :
          (r.email = last.req.email /\ r.password = last.req.password)
             => last.resp = [status |-> 200, body |-> [id |-> r.id, name |-> r.name, email |-> r.email]]

C10_Witness ==
    /\ Is("login", 200)
    /\ \E r \in registered : r.email = last.req.email /\ r.password = last.req.password
    /\ Len(users) < TotalDocs(store)

====
